---- MODULE Spec2Model ----
(***************************************************************************)
(* Model of the LegitCHAIN blockchain network adapters                     *)
(* (src/blockchain-adapters.ts): the factory, and the three adapters       *)
(* CustomPoAAdapter, PolygonAdapter and EthereumAdapter.                   *)
(*                                                                         *)
(* One adapter instance is followed at a time (the one the factory made   *)
(* last).  Every adapter method is one action.  The answers of the        *)
(* underlying client / SDK / provider are inputs of the action, drawn with *)
(* \E; the action records in `last` what the call did: the backend         *)
(* primitives it invoked, in order, the transaction it prepared and the    *)
(* value it returned or the error it threw.                                *)
(***************************************************************************)
EXTENDS Integers, Sequences, FiniteSets, TLC

VARIABLES adapter, last, env, tasks

vars == <<adapter, last, env, tasks>>

\* The state of the test environment, which no adapter method touches.
harness == <<env, tasks>>

(***************************************************************************)
(* Bounds of the model.                                                    *)
(***************************************************************************)
MaxGas == 2
MaxBaseFee == 1
MaxBlock == 1
MaxPayload == 2
MaxWait == 2
MaxRetries == 2
MaxFailures == 2
MaxWraps == 2

\* The most containers the environment tracks when initialize() is called.
MaxTracked == 4

(***************************************************************************)
(* Values.                                                                 *)
(***************************************************************************)
\* Amounts of wei are counted in units of 10^6 wei, so that 50 gwei fits
\* the integers of the model checker: one gwei is 1000 units.
WeiPerGwei == 1000

\* What a call that returns nothing returns, and what a call that has no
\* argument is given.  Values and arguments are records whose field names
\* tell what they are.
Void == [void |-> TRUE]

NoArg == [none |-> TRUE]

\* The answers of a backend primitive: a value, a rejection, or null.
Answer(v) == [st |-> "ok", v |-> v]

Rejected == [st |-> "fail"]

NullAnswer == [st |-> "null"]

\* A value that may be missing (null or undefined): <<>> or <<v>>.
None == <<>>

Some(v) == <<v>>

Kinds == {"POA", "POLYGON", "ETHEREUM"}

\* Tokens handed to the factory: the three it knows and one it does not.
Tokens == Kinds \cup {"SOLANA"}

Keys == {"k1", "k2"}

\* The checksummed address that belongs to a signing key.
AddressOf(k) == IF k = "k1" THEN "0xA1" ELSE "0xA2"

\* An address no configured key has.
OtherAddress == "0xFF"

\* The same address written in lower case.
LowerCase(addr) == IF addr = "0xA1" THEN "0xa1" ELSE "0xa2"

\* NetworkConfig: the fields the adapters read.  The verifier identity is
\* the address of the signing key, written with its checksum or in lower
\* case; the timeout is in milliseconds.
Configs ==
    {[privateKey |-> "k1", verifier |-> AddressOf("k1"),
      endpoints |-> <<"local">>, timeout |-> 5000],
     [privateKey |-> "k2", verifier |-> LowerCase(AddressOf("k2")),
      endpoints |-> <<"remote">>, timeout |-> 3000]}

\* Transaction: the field the adapters read.
Gases == (0 .. MaxGas) \cup {100}
Transactions == [estimatedGas : Gases]

TxIds == {"0xabc", "0xdef"}

\* ContractCall
ContractCalls == {[address |-> "0xC0", method |-> "get"]}

\* Block numbers asked for and answered; the chains of the Ethereum
\* provider are MaxBlock + 1 blocks long or about a hundred blocks long.
BlockNumbers == 0 .. MaxBlock

LatestNumbers == BlockNumbers \cup {99, 100, 100 + MaxBlock}

Timestamp(n) == 1000 + 12 * n

Block(n, txs) ==
    [number |-> n, hash |-> <<"hash", n>>, timestamp |-> Timestamp(n),
     transactions |-> txs]

Blocks == {Block(n, txs) : n \in BlockNumbers, txs \in {<<>>, <<"0xabc">>}}

\* Fee amounts a backend reports: a few units and a few gwei.
FeeValues == (0 .. MaxBaseFee) \cup {100 * WeiPerGwei}

\* Each figure of the backend's metrics is reported or missing.
Figures == {None, Some(7)}

\* Payloads to anchor.
Payloads == 1 .. MaxPayload

\* A JavaScript number that need not be an integer, as a fraction.
Frac(n, d) == [num |-> n, den |-> d]

IsInteger(x, n) == x.num = n * x.den

\* Math.round of a non-negative fraction: the nearest integer, halves up.
Round(x) == (2 * x.num + x.den) \div (2 * x.den)

(***************************************************************************)
(* Results of calls.                                                       *)
(***************************************************************************)
Ok(v) == [ok |-> TRUE, val |-> v, err |-> "none"]

\* The errors the source can end in: the TypeError of reading a property
\* of undefined or null, the rejection of a backend primitive, which the
\* adapters pass on unchanged, and the Error the factory throws.
Err(e) == [ok |-> FALSE, val |-> Void, err |-> e]

\* One invocation of a backend primitive.
Inv(p, a, o) == [prim |-> p, arg |-> a, ok |-> o]

NoPrepared == [none |-> TRUE]

\* The record of one completed call.
Call(k, o, pre, tr, res, prep, a) ==
    [kind |-> k, op |-> o, pre |-> pre, trace |-> tr, res |-> res,
     prepared |-> prep, arg |-> a]

\* The underlying client object: the configuration it was built from,
\* whether its initialize() completed and whether its connect() succeeded.
Client(cfg, i, c) ==
    [defined |-> TRUE, cfg |-> cfg, initialized |-> i, connected |-> c]

\* The client field before initialize() has assigned it.
NoClient == [defined |-> FALSE]

\* No adapter has been made yet.
NoAdapter == [kind |-> "none", client |-> NoClient, ledger |-> <<>>]

HasClient == adapter.client.defined

\* ethers.parseUnits(value, 'gwei')
parseUnits(value) == value * WeiPerGwei

(***************************************************************************)
(* ChainAdapterFactory                                                     *)
(***************************************************************************)
\* A new adapter; `ledger` is what the backend has taken from it so far.
NewAdapter(k, cfg) ==
    [kind |-> k, config |-> cfg, client |-> NoClient, ledger |-> <<>>]

createAdapter(chainType, config) ==
    /\ UNCHANGED harness
    /\ IF chainType \in Kinds
       THEN /\ adapter' = NewAdapter(chainType, config)
            /\ last' = Call(chainType, "createAdapter", NoClient, <<>>,
                            Ok([adapter |-> chainType]), NoPrepared,
                            [chainType |-> chainType])
       ELSE /\ UNCHANGED adapter
            /\ last' = Call("none", "createAdapter", NoClient, <<>>,
                            Err("Error"), NoPrepared,
                            [chainType |-> chainType])

\* No test environment has been constructed yet.
NoEnv == [constructed |-> FALSE]

\* The two callers that can have a call of the test environment in flight.
Slots == {"a", "b"}

\* A caller with no call in flight.
Idle == [op |-> "idle"]

Init ==
    /\ adapter = NoAdapter
    /\ last = Call("none", "none", NoClient, <<>>, Ok(Void), NoPrepared, NoArg)
    /\ env = NoEnv
    /\ tasks = [s \in Slots |-> Idle]

(***************************************************************************)
(* CustomPoAAdapter                                                        *)
(***************************************************************************)
IsPoA == adapter.kind = "POA"

\* The block number that asks for the latest block.
Latest == -1

Contains(seq, x) == \E i \in 1 .. Len(seq) : seq[i] = x

\* The PoA chain behind the client: a transaction it accepts is in the
\* transaction list of its latest block from then on.
PoAClient_accept(ledger, id) ==
    IF Contains(ledger, id) THEN ledger ELSE Append(ledger, id)

PoAClient_latestBlock(ledger) == Block(MaxBlock, ledger)

\* What client.getBlock(Latest) answers: the latest block, or a rejection.
PoAClient_getBlock(ledger) ==
    {Answer([block |-> PoAClient_latestBlock(ledger)]), Rejected}

\* tx.estimatedGas * 1.1, as the fraction 11 * estimatedGas / 10; the
\* double the source computes is this fraction up to the last bit, and is
\* no integer where the fraction is none.
calculateOptimalGasLimit(tx) == Frac(11 * tx.estimatedGas, 10)

\* new CustomPoAClient(config); await this.client.initialize(); an error
\* is logged and thrown again.
PoA_initialize(config, ctorOk, initOk) ==
    /\ IsPoA
    /\ UNCHANGED harness
    /\ adapter' = IF ctorOk
                  THEN [adapter EXCEPT !.client = Client(config, initOk, FALSE)]
                  ELSE adapter
    /\ last' = Call("POA", "initialize", adapter.client,
                    IF ctorOk
                    THEN <<Inv("new", "", TRUE), Inv("initialize", "", initOk)>>
                    ELSE <<Inv("new", "", FALSE)>>,
                    IF ctorOk /\ initOk THEN Ok(Void) ELSE Err("BackendError"),
                    NoPrepared, [config |-> config])

PoA_connect(ok) ==
    /\ IsPoA
    /\ UNCHANGED harness
    /\ IF ~HasClient
       THEN /\ UNCHANGED adapter
            /\ last' = Call("POA", "connect", adapter.client, <<>>,
                            Err("TypeError"), NoPrepared, NoArg)
       ELSE /\ adapter' = IF ok
                          THEN [adapter EXCEPT !.client.connected = TRUE]
                          ELSE adapter
            /\ last' = Call("POA", "connect", adapter.client,
                            <<Inv("connect", "", ok)>>,
                            IF ok THEN Ok(Void) ELSE Err("BackendError"),
                            NoPrepared,
                            [endpoints |-> adapter.config.endpoints,
                             timeout |-> adapter.config.timeout])

PoA_disconnect(ok) ==
    /\ IsPoA
    /\ UNCHANGED harness
    /\ IF ~HasClient
       THEN /\ UNCHANGED adapter
            /\ last' = Call("POA", "disconnect", adapter.client, <<>>,
                            Err("TypeError"), NoPrepared, NoArg)
       ELSE /\ adapter' = IF ok
                          THEN [adapter EXCEPT !.client.connected = FALSE]
                          ELSE adapter
            /\ last' = Call("POA", "disconnect", adapter.client,
                            <<Inv("disconnect", "", ok)>>,
                            IF ok THEN Ok(Void) ELSE Err("BackendError"),
                            NoPrepared, NoArg)

\* The transaction handed to client.prepareTransaction.
PoA_preparedTx(tx) ==
    [estimatedGas |-> tx.estimatedGas,
     gasPrice |-> "0",
     gasLimit |-> calculateOptimalGasLimit(tx)]

\* A submitTransaction that returns an identifier other than the one the
\* client answered.
PoA_submitTransaction_OtherId(tx, prepOk, sub) ==
    /\ IsPoA
    /\ UNCHANGED harness
    /\ adapter' = IF HasClient /\ prepOk /\ sub.st = "ok"
                  THEN [adapter EXCEPT
                          !.ledger = PoAClient_accept(@, sub.v.id)]
                  ELSE adapter
    /\ IF ~HasClient
       THEN last' = Call("POA", "submitTransaction", adapter.client, <<>>,
                         Err("TypeError"), NoPrepared, [tx |-> tx])
       ELSE last' = Call("POA", "submitTransaction", adapter.client,
                         IF prepOk
                         THEN <<Inv("prepareTransaction", "", TRUE),
                                Inv("submitTransaction", "", sub.st = "ok")>>
                         ELSE <<Inv("prepareTransaction", "", FALSE)>>,
                         IF prepOk /\ sub.st = "ok"
                         THEN Ok([id |-> IF sub.v.id = "0xabc" THEN "0xdef"
                                         ELSE "0xabc"])
                         ELSE Err("BackendError"),
                         PoA_preparedTx(tx), [tx |-> tx])

PoA_submitTransaction(tx, prepOk, sub) ==
    /\ IsPoA
    /\ UNCHANGED harness
    /\ adapter' = IF HasClient /\ prepOk /\ sub.st = "ok"
                  THEN [adapter EXCEPT
                          !.ledger = PoAClient_accept(@, sub.v.id)]
                  ELSE adapter
    /\ IF ~HasClient
       THEN last' = Call("POA", "submitTransaction", adapter.client, <<>>,
                         Err("TypeError"), NoPrepared, [tx |-> tx])
       ELSE last' = Call("POA", "submitTransaction", adapter.client,
                         IF prepOk
                         THEN <<Inv("prepareTransaction", "", TRUE),
                                Inv("submitTransaction", "", sub.st = "ok")>>
                         ELSE <<Inv("prepareTransaction", "", FALSE)>>,
                         IF prepOk /\ sub.st = "ok" THEN Ok(sub.v)
                         ELSE Err("BackendError"),
                         PoA_preparedTx(tx), [tx |-> tx])

\* A pass-through that swallows the rejection of the client.
PoA_passThrough_Swallowing(op, prim, arg, ans) ==
    /\ IsPoA
    /\ UNCHANGED harness
    /\ UNCHANGED adapter
    /\ IF ~HasClient
       THEN last' = Call("POA", op, adapter.client, <<>>,
                         Err("TypeError"), NoPrepared, arg)
       ELSE last' = Call("POA", op, adapter.client,
                         <<Inv(prim, "", ans.st = "ok")>>,
                         IF ans.st = "ok" THEN Ok(ans.v) ELSE Ok(Void),
                         NoPrepared, arg)

\* A method that hands one call to the client and returns its answer.
PoA_passThrough(op, prim, arg, ans) ==
    /\ IsPoA
    /\ UNCHANGED harness
    /\ UNCHANGED adapter
    /\ IF ~HasClient
       THEN last' = Call("POA", op, adapter.client, <<>>,
                         Err("TypeError"), NoPrepared, arg)
       ELSE last' = Call("POA", op, adapter.client,
                         <<Inv(prim, "", ans.st = "ok")>>,
                         IF ans.st = "ok" THEN Ok(ans.v) ELSE Err("BackendError"),
                         NoPrepared, arg)

PoA_callContract(call, ans) ==
    PoA_passThrough("callContract", "callContract", [call |-> call], ans)

PoA_getBlock(blockNumber, ans) ==
    PoA_passThrough("getBlock", "getBlock",
                    [blockNumber |-> blockNumber], ans)

\* The NetworkMetrics built from the client's metrics.
PoA_metrics(m) ==
    [blockTime |-> m.averageBlockTime,
     tps |-> m.transactionsPerSecond,
     nodeCount |-> m.activeNodes,
     latency |-> m.networkLatency]

PoA_getMetrics(ans) ==
    /\ IsPoA
    /\ UNCHANGED harness
    /\ UNCHANGED adapter
    /\ IF ~HasClient
       THEN last' = Call("POA", "getMetrics", adapter.client, <<>>,
                         Err("TypeError"), NoPrepared, NoArg)
       ELSE last' = Call("POA", "getMetrics", adapter.client,
                         <<Inv("getNetworkMetrics", "", ans.st = "ok")>>,
                         IF ans.st = "ok" THEN Ok([metrics |-> PoA_metrics(ans.v)])
                         ELSE Err("BackendError"),
                         NoPrepared, [answer |-> ans])

PoA_generateProof(data, ans) ==
    PoA_passThrough("generateProof", "generateProof", [data |-> data], ans)

PoA_verifyProof(proof, ans) ==
    PoA_passThrough("verifyProof", "verifyProof",
                    [opaqueProof |-> proof], ans)

(***************************************************************************)
(* PolygonAdapter                                                          *)
(***************************************************************************)
IsPolygon == adapter.kind = "POLYGON"

\* new PolygonSDK({...}); await this.sdk.initialize(); an error is logged
\* and thrown again.
Polygon_initialize(config, ctorOk, initOk) ==
    /\ IsPolygon
    /\ UNCHANGED harness
    /\ adapter' = IF ctorOk
                  THEN [adapter EXCEPT !.client = Client(config, initOk, FALSE)]
                  ELSE adapter
    /\ last' = Call("POLYGON", "initialize", adapter.client,
                    IF ctorOk
                    THEN <<Inv("new", "", TRUE), Inv("initialize", "", initOk)>>
                    ELSE <<Inv("new", "", FALSE)>>,
                    IF ctorOk /\ initOk THEN Ok(Void) ELSE Err("BackendError"),
                    NoPrepared, [config |-> config])

Polygon_connect(ok) ==
    /\ IsPolygon
    /\ UNCHANGED harness
    /\ IF ~HasClient
       THEN /\ UNCHANGED adapter
            /\ last' = Call("POLYGON", "connect", adapter.client, <<>>,
                            Err("TypeError"), NoPrepared, NoArg)
       ELSE /\ adapter' = IF ok
                          THEN [adapter EXCEPT !.client.connected = TRUE]
                          ELSE adapter
            /\ last' = Call("POLYGON", "connect", adapter.client,
                            <<Inv("connect", "", ok)>>,
                            IF ok THEN Ok(Void) ELSE Err("BackendError"),
                            NoPrepared, NoArg)

Polygon_disconnect(ok) ==
    /\ IsPolygon
    /\ UNCHANGED harness
    /\ IF ~HasClient
       THEN /\ UNCHANGED adapter
            /\ last' = Call("POLYGON", "disconnect", adapter.client, <<>>,
                            Err("TypeError"), NoPrepared, NoArg)
       ELSE /\ adapter' = IF ok
                          THEN [adapter EXCEPT !.client.connected = FALSE]
                          ELSE adapter
            /\ last' = Call("POLYGON", "disconnect", adapter.client,
                            <<Inv("disconnect", "", ok)>>,
                            IF ok THEN Ok(Void) ELSE Err("BackendError"),
                            NoPrepared, NoArg)

\* The base fee handed on without the doubling.
Polygon_getOptimalMaxFeePerGas_NotDoubled(baseFee) == baseFee

\* baseFee * 2n, for the base fee the SDK answered.
Polygon_getOptimalMaxFeePerGas(baseFee) == baseFee * 2

\* ethers.parseUnits('30', 'gwei')
Polygon_getOptimalPriorityFee == parseUnits(30)

\* The transaction handed to sdk.prepareTransaction.
Polygon_preparedTx(tx, baseFee) ==
    [estimatedGas |-> tx.estimatedGas,
     maxFeePerGas |-> Polygon_getOptimalMaxFeePerGas(baseFee),
     maxPriorityFeePerGas |-> Polygon_getOptimalPriorityFee]

\* base: the answer of sdk.getBaseFee(); prepOk, sub: those of
\* sdk.prepareTransaction and sdk.submitTransaction.
Polygon_submitTransaction(tx, base, prepOk, sub) ==
    /\ IsPolygon
    /\ UNCHANGED harness
    /\ UNCHANGED adapter
    /\ IF ~HasClient
       THEN last' = Call("POLYGON", "submitTransaction", adapter.client, <<>>,
                         Err("TypeError"), NoPrepared, [tx |-> tx])
       ELSE IF base.st # "ok"
       THEN last' = Call("POLYGON", "submitTransaction", adapter.client,
                         <<Inv("getBaseFee", "", FALSE)>>,
                         Err("BackendError"), NoPrepared, [tx |-> tx])
       ELSE last' = Call("POLYGON", "submitTransaction", adapter.client,
                         <<Inv("getBaseFee", "", TRUE)>> \o
                         (IF prepOk
                          THEN <<Inv("prepareTransaction", "", TRUE),
                                 Inv("submitTransaction", "", sub.st = "ok")>>
                          ELSE <<Inv("prepareTransaction", "", FALSE)>>),
                         IF prepOk /\ sub.st = "ok" THEN Ok(sub.v)
                         ELSE Err("BackendError"),
                         Polygon_preparedTx(tx, base.v),
                         [tx |-> tx, baseFee |-> base.v])

\* A method that hands one call to the SDK and returns its answer.
Polygon_passThrough(op, prim, arg, ans) ==
    /\ IsPolygon
    /\ UNCHANGED harness
    /\ UNCHANGED adapter
    /\ IF ~HasClient
       THEN last' = Call("POLYGON", op, adapter.client, <<>>,
                         Err("TypeError"), NoPrepared, arg)
       ELSE last' = Call("POLYGON", op, adapter.client,
                         <<Inv(prim, "", ans.st = "ok")>>,
                         IF ans.st = "ok" THEN Ok(ans.v) ELSE Err("BackendError"),
                         NoPrepared, arg)

Polygon_callContract(call, ans) ==
    Polygon_passThrough("callContract", "callContract", [call |-> call], ans)

Polygon_getBlock(blockNumber, ans) ==
    Polygon_passThrough("getBlock", "getBlock",
                        [blockNumber |-> blockNumber], ans)

\* The NetworkMetrics built from the SDK's metrics.
Polygon_metrics(m) ==
    [blockTime |-> m.averageBlockTime,
     tps |-> m.transactionsPerSecond,
     nodeCount |-> m.activeValidators,
     latency |-> m.networkLatency]

Polygon_getMetrics(ans) ==
    /\ IsPolygon
    /\ UNCHANGED harness
    /\ UNCHANGED adapter
    /\ IF ~HasClient
       THEN last' = Call("POLYGON", "getMetrics", adapter.client, <<>>,
                         Err("TypeError"), NoPrepared, NoArg)
       ELSE last' = Call("POLYGON", "getMetrics", adapter.client,
                         <<Inv("getNetworkMetrics", "", ans.st = "ok")>>,
                         IF ans.st = "ok" THEN Ok([metrics |-> Polygon_metrics(ans.v)])
                         ELSE Err("BackendError"),
                         NoPrepared, [answer |-> ans])

Polygon_generateProof(data, ans) ==
    Polygon_passThrough("generateProof", "generateProof", [data |-> data], ans)

Polygon_verifyProof(proof, ans) ==
    Polygon_passThrough("verifyProof", "verifyProof",
                    [opaqueProof |-> proof], ans)

(***************************************************************************)
(* EthereumAdapter                                                         *)
(***************************************************************************)
IsEthereum == adapter.kind = "ETHEREUM"

\* new ethers.providers.JsonRpcProvider(config.rpc); await
\* this.provider.ready; an error is logged and thrown again.
Eth_initialize(config, ctorOk, readyOk) ==
    /\ IsEthereum
    /\ UNCHANGED harness
    /\ adapter' = IF ctorOk
                  THEN [adapter EXCEPT !.client = Client(config, readyOk, FALSE)]
                  ELSE adapter
    /\ last' = Call("ETHEREUM", "initialize", adapter.client,
                    IF ctorOk
                    THEN <<Inv("new", "", TRUE), Inv("ready", "", readyOk)>>
                    ELSE <<Inv("new", "", FALSE)>>,
                    IF ctorOk /\ readyOk THEN Ok(Void) ELSE Err("BackendError"),
                    NoPrepared, [config |-> config])

\* await this.provider.ready
Eth_connect(readyOk) ==
    /\ IsEthereum
    /\ UNCHANGED harness
    /\ IF ~HasClient
       THEN /\ UNCHANGED adapter
            /\ last' = Call("ETHEREUM", "connect", adapter.client, <<>>,
                            Err("TypeError"), NoPrepared, NoArg)
       ELSE /\ adapter' = IF readyOk
                          THEN [adapter EXCEPT !.client.connected = TRUE]
                          ELSE adapter
            /\ last' = Call("ETHEREUM", "connect", adapter.client,
                            <<Inv("ready", "", readyOk)>>,
                            IF readyOk THEN Ok(Void) ELSE Err("BackendError"),
                            NoPrepared, NoArg)

\* The body is empty.
Eth_disconnect ==
    /\ IsEthereum
    /\ UNCHANGED harness
    /\ UNCHANGED adapter
    /\ last' = Call("ETHEREUM", "disconnect", adapter.client, <<>>,
                    Ok(Void), NoPrepared, NoArg)

\* JavaScript's a || b on a bigint that may be null: b when a is null or 0n.
OrElse(a, b) == IF a # None /\ a[1] # 0 THEN a[1] ELSE b

\* feeData.maxFeePerGas || ethers.parseUnits('50', 'gwei')
Eth_getOptimalMaxFeePerGas(feeData) ==
    OrElse(feeData.maxFeePerGas, parseUnits(50))

\* feeData.maxPriorityFeePerGas || ethers.parseUnits('2', 'gwei')
Eth_getOptimalPriorityFee(feeData) ==
    OrElse(feeData.maxPriorityFeePerGas, parseUnits(2))

\* The transaction that is serialized and sent; type 2 is EIP-1559.
Eth_preparedTx(tx, fd1, fd2) ==
    [estimatedGas |-> tx.estimatedGas,
     maxFeePerGas |-> Eth_getOptimalMaxFeePerGas(fd1),
     maxPriorityFeePerGas |-> Eth_getOptimalPriorityFee(fd2),
     type |-> 2]

\* fd1, fd2: the answers of the two calls of provider.getFeeData(); serOk:
\* whether ethers.utils.serializeTransaction accepted the transaction;
\* send: the answer of provider.sendTransaction.
Eth_submitTransaction(tx, fd1, fd2, serOk, send) ==
    /\ IsEthereum
    /\ UNCHANGED harness
    /\ UNCHANGED adapter
    /\ IF ~HasClient
       THEN last' = Call("ETHEREUM", "submitTransaction", adapter.client, <<>>,
                         Err("TypeError"), NoPrepared, [tx |-> tx])
       ELSE IF fd1.st # "ok"
       THEN last' = Call("ETHEREUM", "submitTransaction", adapter.client,
                         <<Inv("getFeeData", "", FALSE)>>,
                         Err("BackendError"), NoPrepared, [tx |-> tx])
       ELSE IF fd2.st # "ok"
       THEN last' = Call("ETHEREUM", "submitTransaction", adapter.client,
                         <<Inv("getFeeData", "", TRUE),
                           Inv("getFeeData", "", FALSE)>>,
                         Err("BackendError"), NoPrepared, [tx |-> tx])
       ELSE last' = Call("ETHEREUM", "submitTransaction", adapter.client,
                         <<Inv("getFeeData", "", TRUE),
                           Inv("getFeeData", "", TRUE)>> \o
                         (IF serOk
                          THEN <<Inv("sendTransaction", "", send.st = "ok")>>
                          ELSE <<>>),
                         IF ~serOk THEN Err("SerializeError")
                         ELSE IF send.st = "ok" THEN Ok([id |-> send.v.id])
                         ELSE Err("BackendError"),
                         Eth_preparedTx(tx, fd1.v, fd2.v),
                         [tx |-> tx, fd1 |-> fd1.v, fd2 |-> fd2.v])

\* new ethers.Contract(address, abi, this.provider) and the call of the
\* method; without a provider the contract cannot make the call.
Eth_callContract(call, ans) ==
    /\ IsEthereum
    /\ UNCHANGED harness
    /\ UNCHANGED adapter
    /\ IF ~HasClient
       THEN last' = Call("ETHEREUM", "callContract", adapter.client, <<>>,
                         Err("Error"), NoPrepared, [call |-> call])
       ELSE last' = Call("ETHEREUM", "callContract", adapter.client,
                         <<Inv("call", "", ans.st = "ok")>>,
                         IF ans.st = "ok" THEN Ok(ans.v) ELSE Err("BackendError"),
                         NoPrepared, [call |-> call])

\* provider.getBlock answers null for a block that does not exist, and
\* the fields of null cannot be read.
Eth_getBlock(blockNumber, ans) ==
    /\ IsEthereum
    /\ UNCHANGED harness
    /\ UNCHANGED adapter
    /\ IF ~HasClient
       THEN last' = Call("ETHEREUM", "getBlock", adapter.client, <<>>,
                         Err("TypeError"), NoPrepared,
                         [blockNumber |-> blockNumber])
       ELSE last' = Call("ETHEREUM", "getBlock", adapter.client,
                         <<Inv("getBlock", "n", ans.st # "fail")>>,
                         CASE ans.st = "ok" ->
                                Ok([block |->
                                     [number |-> ans.v.block.number,
                                      hash |-> ans.v.block.hash,
                                      timestamp |-> ans.v.block.timestamp,
                                      transactions |-> ans.v.block.transactions]])
                           [] ans.st = "null" -> Err("TypeError")
                           [] OTHER -> Err("BackendError"),
                         NoPrepared,
                         [blockNumber |-> blockNumber, answer |-> ans.st])

blockCount == 100

\* (latestBlock.timestamp - oldBlock.timestamp) / blockCount
calculateAverageBlockTime(latestBlock, oldBlock) ==
    Frac(latestBlock.timestamp - oldBlock.timestamp, blockCount)

\* The errors one getMetrics call can end in, for the answers latest, old
\* (the two getBlock calls), gas (getGasPrice), net (getNetwork) and
\* num (getBlockNumber).
Eth_metricsErrors(latest, old, gas, net, num) ==
    (IF latest.st = "fail" \/ (latest.st = "ok" /\ old.st = "fail")
        \/ gas.st = "fail" \/ net.st = "fail"
     THEN {"BackendError"} ELSE {})
    \cup (IF latest.st = "null" \/ (latest.st = "ok" /\ old.st = "null")
          THEN {"TypeError"} ELSE {})

\* The backend primitives one getMetrics call invokes: the three members
\* of Promise.all start in order, the second getBlock follows the first,
\* and the latency is measured once all three have answered.
Eth_metricsTrace(latest, old, gas, net, num) ==
    <<Inv("getBlock", "latest", latest.st # "fail"),
      Inv("getGasPrice", "", gas.st = "ok"),
      Inv("getNetwork", "", net.st = "ok")>>
    \o (IF latest.st = "ok"
        THEN <<Inv("getBlock", "latest-100", old.st # "fail")>> ELSE <<>>)
    \o (IF Eth_metricsErrors(latest, old, gas, net, num) = {}
        THEN <<Inv("getBlockNumber", "", num.st = "ok")>> ELSE <<>>)

Eth_getMetrics(latest, old, gas, net, num, elapsed) ==
    /\ IsEthereum
    /\ UNCHANGED harness
    /\ UNCHANGED adapter
    /\ IF ~HasClient
       THEN last' = Call("ETHEREUM", "getMetrics", adapter.client, <<>>,
                         Err("TypeError"), NoPrepared, NoArg)
       ELSE LET errs == Eth_metricsErrors(latest, old, gas, net, num)
                tr == Eth_metricsTrace(latest, old, gas, net, num)
                arg == [latest |-> latest, old |-> old]
            IN  IF errs # {}
                THEN \E e \in errs :
                        last' = Call("ETHEREUM", "getMetrics", adapter.client,
                                     tr, Err(e), NoPrepared, arg)
                ELSE IF num.st # "ok"
                THEN last' = Call("ETHEREUM", "getMetrics", adapter.client,
                                  tr, Err("BackendError"), NoPrepared, arg)
                ELSE last' = Call("ETHEREUM", "getMetrics", adapter.client, tr,
                                  Ok([ethMetrics |->
                                       [blockTime |->
                                          calculateAverageBlockTime(
                                              latest.v.block, old.v.block),
                                        gasPrice |-> gas.v,
                                        nodeCount |-> net.v,
                                        latency |-> elapsed]]),
                                  NoPrepared, arg)

\* defaultAbiCoder.encode(['bytes'], [toUtf8Bytes(JSON.stringify(data))])
encode(data) == <<"0x", "bytes", data>>

\* signer.signMessage(data) with the wallet of a private key: a signature
\* of 65 bytes r, s, v in its canonical form.
signMessage(key, data) == [key |-> key, msg |-> data, form |-> "rsv"]

signData(data) == signMessage(adapter.config.privateKey, data)

\* The forms of a signature: the canonical one, and what changing a byte
\* of it gives: the recovery id 0/1 in place of v = 27/28, which ethers
\* reads as the same v; a v byte that is neither; other bytes r, s that
\* are a signature of something else; bytes r that are no curve point.
SignatureForms == {"rsv", "recid", "badv", "otherrs", "badr"}

\* ethers.utils.verifyMessage(data, signature): the address recovered, or
\* None when ethers throws.
verifyMessage(data, signature) ==
    CASE signature.form \in {"badv", "badr"} -> None
      [] signature.form = "otherrs" -> Some(OtherAddress)
      [] signature.msg # data -> Some(OtherAddress)
      [] OTHER -> Some(AddressOf(signature.key))

Eth_generateProof(data) ==
    /\ IsEthereum
    /\ UNCHANGED harness
    /\ UNCHANGED adapter
    /\ last' = Call("ETHEREUM", "generateProof", adapter.client, <<>>,
                    Ok([proof |-> [data |-> encode(data),
                                   signature |-> signData(encode(data))]]),
                    NoPrepared, [data |-> data])

\* verifyMessage(proof.data, proof.signature) === this.config.verifier
Eth_verifyProof(proof) ==
    /\ IsEthereum
    /\ UNCHANGED harness
    /\ UNCHANGED adapter
    /\ LET signer == verifyMessage(proof.data, proof.signature)
       IN  last' = Call("ETHEREUM", "verifyProof", adapter.client, <<>>,
                        IF signer = None THEN Err("Error")
                        ELSE Ok([bool |-> signer[1] = adapter.config.verifier]),
                        NoPrepared, [proof |-> proof])

(***************************************************************************)
(* Answers of the backends.                                                *)
(***************************************************************************)
TxAnswers == {Answer([id |-> id]) : id \in TxIds} \cup {Rejected}

CallAnswers == {Answer([result |-> "result"]), Rejected}

BlockAnswers == {Answer([block |-> b]) : b \in Blocks} \cup {Rejected}

PoAMetrics ==
    [averageBlockTime : Figures, transactionsPerSecond : Figures,
     activeNodes : Figures, networkLatency : Figures]

PolygonMetrics ==
    [averageBlockTime : Figures, transactionsPerSecond : Figures,
     activeValidators : Figures, networkLatency : Figures]

\* The proofs of the PoA client and of the Polygon SDK are opaque.
OpaqueProofs == {[data |-> d, signature |-> "sig"] : d \in Payloads}

OpaqueProofAnswers ==
    {Answer([opaqueProof |-> p]) : p \in OpaqueProofs} \cup {Rejected}

VerifyAnswers == {Answer([bool |-> b]) : b \in BOOLEAN} \cup {Rejected}

BaseFeeAnswers == {Answer(b) : b \in FeeValues} \cup {Rejected}

PoA_Next ==
    \/ \E c \in Configs, a, b \in BOOLEAN : PoA_initialize(c, a, b)
    \/ \E ok \in BOOLEAN : PoA_connect(ok)
    \/ \E ok \in BOOLEAN : PoA_disconnect(ok)
    \/ \E tx \in Transactions, p \in BOOLEAN, s \in TxAnswers :
          PoA_submitTransaction(tx, p, s)
    \/ \E c \in ContractCalls, ans \in CallAnswers : PoA_callContract(c, ans)
    \/ \E n \in BlockNumbers, ans \in BlockAnswers : PoA_getBlock(n, ans)
    \/ \E ans \in PoAClient_getBlock(adapter.ledger) : PoA_getBlock(Latest, ans)
    \/ \E ans \in {Answer(m) : m \in PoAMetrics} \cup {Rejected} :
          PoA_getMetrics(ans)
    \/ \E d \in Payloads, ans \in OpaqueProofAnswers : PoA_generateProof(d, ans)
    \/ \E p \in OpaqueProofs, ans \in VerifyAnswers : PoA_verifyProof(p, ans)

Polygon_Next ==
    \/ \E c \in Configs, a, b \in BOOLEAN : Polygon_initialize(c, a, b)
    \/ \E ok \in BOOLEAN : Polygon_connect(ok)
    \/ \E ok \in BOOLEAN : Polygon_disconnect(ok)
    \/ \E tx \in Transactions, b \in BaseFeeAnswers, p \in BOOLEAN,
          s \in TxAnswers : Polygon_submitTransaction(tx, b, p, s)
    \/ \E c \in ContractCalls, ans \in CallAnswers :
          Polygon_callContract(c, ans)
    \/ \E n \in BlockNumbers, ans \in BlockAnswers : Polygon_getBlock(n, ans)
    \/ \E ans \in {Answer(m) : m \in PolygonMetrics} \cup {Rejected} :
          Polygon_getMetrics(ans)
    \/ \E d \in Payloads, ans \in OpaqueProofAnswers :
          Polygon_generateProof(d, ans)
    \/ \E p \in OpaqueProofs, ans \in VerifyAnswers :
          Polygon_verifyProof(p, ans)

\* A field of the provider's fee data has a value or is null.
MaybeFees == {None} \cup {Some(f) : f \in FeeValues}

\* The answers of provider.getFeeData(), as the one field that the caller
\* of it reads.
MaxFeeAnswers == {Answer([maxFeePerGas |-> m]) : m \in MaybeFees} \cup {Rejected}

PriorityFeeAnswers ==
    {Answer([maxPriorityFeePerGas |-> m]) : m \in MaybeFees} \cup {Rejected}

EthBlockAnswers == BlockAnswers \cup {NullAnswer}

LatestAnswers ==
    {Answer([block |-> Block(n, <<>>)]) : n \in LatestNumbers} \cup {Rejected}

\* What provider.getBlock(latest.number - 100) answers: the block of that
\* number when there is one; for a negative number, which ethers reads as
\* counted back from the latest block and not below block 0, that block,
\* or null; or it rejects.
OldAnswers(latest) ==
    IF latest.st # "ok" THEN {Rejected}
    ELSE LET number == latest.v.block.number
             n == number - blockCount
             back == IF number + n < 0 THEN 0 ELSE number + n
         IN  IF n >= 0 THEN {Answer([block |-> Block(n, <<>>)]), Rejected}
             ELSE {Answer([block |-> Block(back, <<>>)]), NullAnswer, Rejected}

Signatures == [key : Keys, msg : {encode(d) : d \in Payloads},
               form : SignatureForms]

EthProofs == [data : {encode(d) : d \in Payloads}, signature : Signatures]

Eth_Next ==
    \/ \E c \in Configs, a, b \in BOOLEAN : Eth_initialize(c, a, b)
    \/ \E ok \in BOOLEAN : Eth_connect(ok)
    \/ Eth_disconnect
    \/ \E tx \in Transactions, fd1 \in MaxFeeAnswers,
          fd2 \in PriorityFeeAnswers, ser \in BOOLEAN, s \in TxAnswers :
          Eth_submitTransaction(tx, fd1, fd2, ser, s)
    \/ \E c \in ContractCalls, ans \in CallAnswers : Eth_callContract(c, ans)
    \/ \E n \in BlockNumbers, ans \in EthBlockAnswers : Eth_getBlock(n, ans)
    \/ \E latest \in LatestAnswers :
          \E old \in OldAnswers(latest) :
             \E gas \in {Answer("20"), Rejected},
                net \in {Answer("network"), Rejected},
                num \in {Answer(MaxBlock), Rejected} :
                Eth_getMetrics(latest, old, gas, net, num, 3)
    \/ \E d \in Payloads : Eth_generateProof(d)
    \/ \E p \in EthProofs : Eth_verifyProof(p)

Next ==
    \/ \E t \in Tokens, c \in Configs : createAdapter(t, c)
    \/ PoA_Next
    \/ Polygon_Next
    \/ Eth_Next

Spec == Init /\ [][Next]_vars

(***************************************************************************)
(* disconnect() in two steps: the call of the client's close, and the      *)
(* return once the close has answered.  Between the two the caller waits   *)
(* and time passes.                                                        *)
(***************************************************************************)

\* The result of a call that has not returned yet.
Pending == [ok |-> FALSE, val |-> Void, err |-> "pending"]

IsPending == last.op = "disconnect" /\ last.res = Pending

\* await this.client.disconnect() / await this.sdk.disconnect(): the close
\* is called and the adapter waits for its answer.
Disconnect_begin ==
    /\ adapter.kind \in {"POA", "POLYGON"}
    /\ HasClient
    /\ ~IsPending
    /\ UNCHANGED <<adapter, harness>>
    /\ last' = Call(adapter.kind, "disconnect", adapter.client, <<>>,
                    Pending, NoPrepared, [elapsed |-> 0])

\* The close has not answered and the adapter goes on waiting: one more
\* length of the configured timeout passes.  Nothing in disconnect() ends
\* the wait.
Disconnect_wait ==
    /\ IsPending
    /\ last.arg.elapsed < MaxWait * adapter.config.timeout
    /\ UNCHANGED <<adapter, harness>>
    /\ last' = [last EXCEPT !.arg.elapsed = @ + adapter.config.timeout]

\* The close answers and disconnect() returns or throws.
Disconnect_end(ok) ==
    /\ IsPending
    /\ (PoA_disconnect(ok) \/ Polygon_disconnect(ok))

DisconnectNext ==
    \/ \E t \in Tokens, c \in Configs : ~IsPending /\ createAdapter(t, c)
    \/ \E c \in Configs, a, b \in BOOLEAN :
          /\ ~IsPending
          /\ (PoA_initialize(c, a, b) \/ Polygon_initialize(c, a, b)
              \/ Eth_initialize(c, a, b))
    \/ \E ok \in BOOLEAN :
          /\ ~IsPending
          /\ (PoA_connect(ok) \/ Polygon_connect(ok) \/ Eth_connect(ok))
    \/ Disconnect_begin
    \/ Disconnect_wait
    \/ \E ok \in BOOLEAN : Disconnect_end(ok)
    \/ ~HasClient /\ (PoA_disconnect(TRUE) \/ Polygon_disconnect(TRUE))
    \/ ~IsPending /\ Eth_disconnect

DisconnectSpec == Init /\ [][DisconnectNext]_vars

(***************************************************************************)
(* TestEnvironment (src/unnamed/part_000).                                 *)
(*                                                                         *)
(* One TestEnvironment instance is followed.  Its asynchronous methods     *)
(* initialize, reset and cleanup run from one await to the next in one     *)
(* step; up to two calls, one per caller, are in flight at a time.  The    *)
(* answers of the database client and of Docker are inputs of the step    *)
(* that resumes after the await.  Consecutive awaits between which no      *)
(* field of the environment is read or written are one step.               *)
(***************************************************************************)

\* DEFAULT_CONFIG.maxRetries
DefaultMaxRetries == 3

\* The values of config.maxRetries.
RetryCounts == (0 .. MaxRetries) \cup {DefaultMaxRetries}

\* A service object: how many retry wrappers its method carries over the
\* method of its class, and what its _original<M> property holds: nothing,
\* or a method that carries so many wrappers.
Service(w, o) == [present |-> TRUE, wraps |-> w, original |-> o]

NoService == [present |-> FALSE]

\* A service object straight from its constructor.
NewService == Service(0, None)

ServiceNames == {"aiService", "documentService"}

\* TestEnvironmentConfig: the options the model follows.  mockAIService is
\* None or the mock instance the caller supplies; the other services are
\* made by the environment.  optimizeForPerformance and useRealBlockchain
\* keep their defaults (false).
EnvConfigs ==
    [mockServices : {TRUE},
     mockAIService : {None, Some(NewService)},
     useDockerContainers : {FALSE},
     retryEnabled : {TRUE},
     maxRetries : RetryCounts]
    \cup
    [mockServices : BOOLEAN,
     mockAIService : {None},
     useDockerContainers : {FALSE},
     retryEnabled : BOOLEAN,
     maxRetries : {DefaultMaxRetries}]
    \cup
    [mockServices : {TRUE},
     mockAIService : {None},
     useDockerContainers : {TRUE},
     retryEnabled : {TRUE},
     maxRetries : {DefaultMaxRetries}]

\* The names of the containers startContainers starts, in order.
containerConfigs == <<"redis", "mongodb">>

Null == <<>>

\* new TestEnvironment(config)
TestEnvironment(config) ==
    [constructed |-> TRUE,
     config |-> config,
     services |-> [n \in ServiceNames |-> NoService],
     databaseClient |-> Null,
     containers |-> <<>>,
     initialized |-> FALSE]

\* Where a service of the environment is the instance of the
\* configuration, the state of that one object is kept in the
\* configuration; `held` marks the entry of this.services that is it.
Supplied == [present |-> TRUE, held |-> TRUE]

IsSupplied(e, n) == e.services[n].present /\ "held" \in DOMAIN e.services[n]

\* The service object this.services[n] refers to.
ServiceOf(e, n) ==
    IF IsSupplied(e, n) THEN e.config.mockAIService[1] ELSE e.services[n]

\* service[`_original${M}`] = service[methodName]
storeOriginal(service) == [service EXCEPT !.original = Some(service.wraps)]

\* service[methodName] = async (...args) => retryLogic(originalMethod...)
wrapMethod(service) == [service EXCEPT !.wraps = @ + 1]

\* The loop of lines 290-298 over the services: the method each service
\* has at that moment is stored as its _original<M>.
storeOriginals(e) ==
    [e EXCEPT
       !.services = [n \in ServiceNames |->
                       IF @[n].present /\ ~IsSupplied(e, n)
                       THEN storeOriginal(@[n]) ELSE @[n]],
       !.config.mockAIService =
           IF IsSupplied(e, "aiService") THEN Some(storeOriginal(@[1])) ELSE @]

\* applyRetryLogic: every method of every service is replaced by a wrapper
\* of the method the service has at that moment.
applyRetryLogic(e) ==
    [e EXCEPT
       !.services = [n \in ServiceNames |->
                       IF @[n].present /\ ~IsSupplied(e, n)
                       THEN wrapMethod(@[n]) ELSE @[n]],
       !.config.mockAIService =
           IF IsSupplied(e, "aiService") THEN Some(wrapMethod(@[1])) ELSE @]

\* initializeServices: the services are assigned (the mock instance of the
\* configuration where there is one, new objects otherwise), the methods of
\* mock services are stored as _original<M>, and the retry wrappers are put
\* on when retry is enabled.
initializeServices(e) ==
    LET assigned ==
            [e EXCEPT !.services =
                IF e.config.mockServices
                THEN [n \in ServiceNames |->
                        IF n = "aiService" /\ e.config.mockAIService # None
                        THEN Supplied ELSE NewService]
                ELSE [n \in ServiceNames |-> NewService]]
        stored ==
            IF e.config.mockServices THEN storeOriginals(assigned)
            ELSE assigned
    IN  IF e.config.retryEnabled THEN applyRetryLogic(stored) ELSE stored

\* The most wrappers a method of the environment carries.
Wraps(e) ==
    IF e.config.mockAIService = None THEN 1
    ELSE e.config.mockAIService[1].wraps

\* What one attempt of an original service method ends in: a result, or an
\* error that is permanent (error.permanent === true) or not.  `attempt`
\* tells the attempts apart; attempt 0 is the undefined that lastError
\* holds before any attempt.
Outcome(ok, permanent, attempt) ==
    [ok |-> ok, permanent |-> permanent, attempt |-> attempt]

Undefined == Outcome(FALSE, FALSE, 0)

\* How the original method behaves in one call of the service: its first
\* `failures` attempts fail with an error that is not permanent, every
\* later one ends as `then` says.
Behaviours == [failures : 0 .. MaxFailures, then : {"ok", "permanent", "fails"}]

\* The outcome of attempt number i of the original method.
originalMethod(b, i) ==
    IF i <= b.failures \/ b.then = "fails" THEN Outcome(FALSE, FALSE, i)
    ELSE Outcome(b.then = "ok", b.then = "permanent", i)

isPermanent_Never(error) == FALSE

\* if (error.permanent === true) throw error
isPermanent(error) == error.permanent

RECURSIVE retryLogic(_, _, _, _, _, _)

\* One call of a method that carries `wraps` wrappers, after `used`
\* attempts of the original method: its outcome, the attempts of the
\* original method made so far, and the attempts the outermost wrapper
\* made of the method it wraps.
callMethod(wraps, maxRetries, b, used) ==
    IF wraps = 0
    THEN [res |-> originalMethod(b, used + 1), used |-> used + 1, tries |-> 0]
    ELSE retryLogic(wraps - 1, maxRetries, b, used, 1, Undefined)

\* retryLogic(fn, args, maxRetries, delay), where fn is the method under
\* `fn` wrappers: the loop at attempt number `attempt`, with lastError.
\* The first result is returned, a permanent error is thrown at once, and
\* lastError is thrown after the last attempt.
retryLogic(fn, maxRetries, b, used, attempt, lastError) ==
    IF attempt > maxRetries
    THEN [res |-> lastError, used |-> used, tries |-> attempt - 1]
    ELSE LET r == callMethod(fn, maxRetries, b, used)
         IN  IF r.res.ok \/ isPermanent(r.res)
             THEN [res |-> r.res, used |-> r.used, tries |-> attempt]
             ELSE retryLogic(fn, maxRetries, b, r.used, attempt + 1, r.res)

\* new DatabaseClient(...)
DatabaseClient == <<"DatabaseClient">>

\* The calls of initialize() in flight.
Initializing == {s \in Slots : tasks[s].op = "initialize"}

\* The result of a call of the environment: returned, or threw the error
\* named after the step that failed.
Returned == [ok |-> TRUE, err |-> ""]

Threw(e) == [ok |-> FALSE, err |-> e]

\* The record of one completed call of the environment.
EnvCall(op, s, res, info) ==
    [kind |-> "env", op |-> op, slot |-> s, res |-> res, info |-> info]

\* The array a for-of loop of cleanup runs over: this.containers itself as
\* long as the field still refers to that array, its last items once the
\* field has been given a new array.
Live == [live |-> TRUE, items |-> <<>>]

Kept(items) == [live |-> FALSE, items |-> items]

\* A call in flight: the method, the await it is suspended at, the error
\* initialize() has caught and throws again after its cleanup ("" when it
\* has caught none), the index of the loop it is in and the array of that
\* loop; and, for the properties, the steps of initialize() it has run,
\* the containers whose stop it has called and whether a stop has failed.
Task(op, pc) ==
    [op |-> op, pc |-> pc, err |-> "", i |-> 0, array |-> Live,
     ran |-> {}, stops |-> <<>>, failed |-> FALSE]

InFlight(s) == tasks[s].op # "idle"

\* The call of caller s is over; r is its record.
Complete(s, e, r) ==
    /\ env' = e
    /\ tasks' = [tasks EXCEPT ![s] = Idle]
    /\ last' = r

\* The result of a call that is suspended at an await.
Awaiting == [ok |-> FALSE, err |-> "awaiting"]

\* The call of caller s is suspended at its next await.
Suspend(s, e, t) ==
    /\ env' = e
    /\ tasks' = [tasks EXCEPT ![s] = t]
    /\ last' = EnvCall(t.op, s, Awaiting, [none |-> TRUE])

\* What the call records when it is over: initialize() that has caught an
\* error throws it again, cleanup() returns.
CleanupResult(t, s, arr) ==
    EnvCall(t.op, s, IF t.err = "" THEN Returned ELSE Threw(t.err),
            [ran |-> t.ran, stops |-> t.stops, tracked |-> arr,
             failed |-> t.failed])

\* The end of cleanup(), lines 529-533: this.containers = [] when the
\* containers were stopped, this.initialized = false.  A loop of the other
\* caller that runs over the array the field loses keeps that array.
cleanupEnd(s, e, t, stopped) ==
    LET arr == IF t.array.live THEN e.containers ELSE t.array.items
    IN  /\ env' = [e EXCEPT !.containers = IF stopped THEN <<>> ELSE @,
                            !.initialized = FALSE]
        /\ tasks' = [o \in Slots |->
                       IF o = s THEN Idle
                       ELSE IF stopped /\ tasks[o].op # "idle"
                               /\ tasks[o].pc = "stop" /\ tasks[o].array.live
                       THEN [tasks[o] EXCEPT !.array = Kept(e.containers)]
                       ELSE tasks[o]]
        /\ last' = CleanupResult(t, s, IF stopped THEN arr ELSE <<>>)

\* cleanup() from line 517 on: the first container.stop() is called, or
\* there is nothing to stop.
cleanupContainers(s, e, t) ==
    IF e.config.useDockerContainers /\ Len(e.containers) > 0
    THEN Suspend(s, e, [t EXCEPT !.pc = "stop", !.i = 1, !.array = Live,
                                 !.stops = <<e.containers[1]>>])
    ELSE cleanupEnd(s, e, t, FALSE)

\* cleanup() up to its first await: databaseClient.disconnect() is called
\* when there is a client.
cleanupStart(s, e, t) ==
    IF e.databaseClient # Null
    THEN Suspend(s, e, [t EXCEPT !.pc = "disconnect"])
    ELSE cleanupContainers(s, e, t)

\* cleanup() is called by caller s.
cleanup_begin(s) ==
    /\ env.constructed
    /\ ~InFlight(s)
    /\ UNCHANGED adapter
    /\ cleanupStart(s, env, Task("cleanup", "none"))

\* An await of cleanup() is over: the disconnect of the database client,
\* whose rejection cleanup() throws, or the stop of a container, whose
\* rejection it logs.
cleanup_resume(s, ok) ==
    /\ InFlight(s)
    /\ tasks[s].pc \in {"disconnect", "stop"}
    /\ UNCHANGED adapter
    /\ LET t == tasks[s]
       IN  IF t.pc = "disconnect"
           THEN IF ok
                THEN cleanupContainers(
                         s, [env EXCEPT !.databaseClient = Null], t)
                ELSE Complete(s, env,
                              EnvCall(t.op, s, Threw("disconnect"),
                                      [ran |-> t.ran, stops |-> t.stops,
                                       tracked |-> env.containers,
                                       failed |-> t.failed]))
           ELSE LET arr == IF t.array.live THEN env.containers
                           ELSE t.array.items
                    u == [t EXCEPT !.failed = @ \/ ~ok]
                IN  IF t.i < Len(arr)
                    THEN Suspend(s, env,
                                 [u EXCEPT !.i = @ + 1,
                                           !.stops = Append(@, arr[t.i + 1])])
                    ELSE cleanupEnd(s, env, u, TRUE)

\* The catch of initialize(): await this.cleanup(); throw error.
catch(s, t, e) == cleanupStart(s, env, [t EXCEPT !.err = e])

\* Step 3 of initialize() and its end: initializeServices(),
\* this.initialized = true.
initialize_end(s, t) ==
    Complete(s, [initializeServices(env) EXCEPT !.initialized = TRUE],
             EnvCall("initialize", s, Returned,
                     [ran |-> t.ran \cup {"services"}, stops |-> <<>>,
                      tracked |-> <<>>, failed |-> FALSE]))

\* initialize() is called by caller s: it returns at once when the
\* environment is initialized, and otherwise makes the database client
\* and calls its connect().
initialize_begin(s) ==
    /\ env.constructed
    /\ ~InFlight(s)
    /\ Wraps(env) < MaxWraps
    /\ Len(env.containers)
         + Len(containerConfigs) * (Cardinality(Initializing) + 1)
       <= MaxTracked
    /\ UNCHANGED adapter
    /\ IF env.initialized
       THEN Complete(s, env,
                     EnvCall("initialize", s, Returned,
                             [ran |-> {}, stops |-> <<>>, tracked |-> <<>>,
                              failed |-> FALSE]))
       ELSE Suspend(s, [env EXCEPT !.databaseClient = DatabaseClient],
                    [Task("initialize", "connect") EXCEPT
                        !.ran = {"database"}])

\* An await of initialize() is over with the answer ok or a rejection:
\* connect() and reset() of the database client, the start of container
\* number i (listContainers, createContainer, start), and the wait after
\* the last container.
initialize_resume(s, ok) ==
    /\ InFlight(s)
    /\ tasks[s].op = "initialize"
    /\ tasks[s].pc \in {"connect", "dbReset", "container", "settle"}
    /\ UNCHANGED adapter
    /\ LET t == tasks[s]
       IN  CASE t.pc = "connect" ->
                  IF ~ok THEN catch(s, t, "connect")
                  ELSE IF env.databaseClient = Null
                  THEN catch(s, t, "TypeError")
                  ELSE Suspend(s, env, [t EXCEPT !.pc = "dbReset"])
             [] t.pc = "dbReset" ->
                  IF ~ok THEN catch(s, t, "dbReset")
                  ELSE IF env.config.useDockerContainers
                  THEN Suspend(s, env,
                               [t EXCEPT !.pc = "container", !.i = 1,
                                         !.ran = @ \cup {"containers"}])
                  ELSE initialize_end(s, t)
             [] t.pc = "container" ->
                  IF ~ok THEN catch(s, t, "start")
                  ELSE LET e == [env EXCEPT !.containers =
                                    Append(@, containerConfigs[t.i])]
                       IN  IF t.i < Len(containerConfigs)
                           THEN Suspend(s, e, [t EXCEPT !.i = @ + 1])
                           ELSE Suspend(s, e, [t EXCEPT !.pc = "settle"])
             [] OTHER -> ok /\ initialize_end(s, t)

\* reset() is called by caller s: databaseClient.reset() when there is a
\* client, then initializeServices().
reset_begin(s) ==
    /\ env.constructed
    /\ ~InFlight(s)
    /\ Wraps(env) < MaxWraps
    /\ UNCHANGED adapter
    /\ IF env.databaseClient # Null
       THEN Suspend(s, env, Task("reset", "reset"))
       ELSE Complete(s, initializeServices(env),
                     EnvCall("reset", s, Returned, [none |-> TRUE]))

\* The reset of the database client has answered.
reset_resume(s, ok) ==
    /\ InFlight(s)
    /\ tasks[s].pc = "reset"
    /\ UNCHANGED adapter
    /\ IF ok
       THEN Complete(s, initializeServices(env),
                     EnvCall("reset", s, Returned, [none |-> TRUE]))
       ELSE Complete(s, env, EnvCall("reset", s, Threw("reset"),
                                     [none |-> TRUE]))

\* What the three accessors test and touch when they are called.
Seen == [initialized |-> env.initialized, databaseClient |-> env.databaseClient]

\* new TestEnvironment(config), once.
construct(config) ==
    /\ ~env.constructed
    /\ env' = TestEnvironment(config)
    /\ last' = EnvCall("construct", "", Returned, [none |-> TRUE])
    /\ UNCHANGED <<adapter, tasks>>

getServices ==
    /\ env.constructed
    /\ UNCHANGED <<adapter, env, tasks>>
    /\ last' = EnvCall("getServices", "",
                       IF ~env.initialized THEN Threw("not initialized")
                       ELSE Returned, Seen)

getService(serviceName) ==
    /\ env.constructed
    /\ UNCHANGED <<adapter, env, tasks>>
    /\ last' = EnvCall("getService", "",
                       IF ~env.initialized THEN Threw("not initialized")
                       ELSE IF ~env.services[serviceName].present
                       THEN Threw("not found")
                       ELSE Returned, Seen)

\* updateService(serviceName, service) with a new object as service.
updateService(serviceName) ==
    /\ env.constructed
    /\ UNCHANGED <<adapter, tasks>>
    /\ LET found == env.initialized /\ env.services[serviceName].present
       IN  /\ env' = IF found
                     THEN [env EXCEPT !.services[serviceName] = NewService]
                     ELSE env
           /\ last' = EnvCall("updateService", "",
                              IF ~env.initialized THEN Threw("not initialized")
                              ELSE IF ~found THEN Threw("not found")
                              ELSE Returned, Seen)

\* One call of the method of service n, made while no call of the
\* environment is in flight; the original method behaves as b says during
\* the call.
callService(n, b) ==
    /\ env.constructed
    /\ env.services[n].present
    /\ \A s \in Slots : ~InFlight(s)
    /\ UNCHANGED <<adapter, env, tasks>>
    /\ LET service == ServiceOf(env, n)
           r == callMethod(service.wraps, env.config.maxRetries, b, 0)
       IN  last' = EnvCall("callService", "",
                           IF r.res.ok THEN Returned ELSE Threw("service"),
                           [service |-> n, wraps |-> service.wraps,
                            behaviour |-> b, outcome |-> r.res,
                            attempts |-> r.used, tries |-> r.tries])

EnvNext ==
    \/ \E c \in EnvConfigs : construct(c)
    \/ \E s \in Slots : initialize_begin(s)
    \/ \E s \in Slots, ok \in BOOLEAN : initialize_resume(s, ok)
    \/ \E s \in Slots : reset_begin(s)
    \/ \E s \in Slots, ok \in BOOLEAN : reset_resume(s, ok)
    \/ \E s \in Slots : cleanup_begin(s)
    \/ \E s \in Slots, ok \in BOOLEAN : cleanup_resume(s, ok)
    \/ getServices
    \/ \E n \in ServiceNames : getService(n)
    \/ \E n \in ServiceNames : updateService(n)
    \/ \E n \in ServiceNames, b \in Behaviours : callService(n, b)

EnvSpec == Init /\ [][EnvNext]_vars

(***************************************************************************)
(* Properties.                                                             *)
(***************************************************************************)
OperationalOps ==
    {"submitTransaction", "callContract", "getBlock", "getMetrics",
     "generateProof", "verifyProof"}

\* The last call invoked backend primitive p.
Invoked(p) == \E i \in DOMAIN last.trace : last.trace[i].prim = p

\* The last call invoked backend primitive p and it answered.
Accepted(p) ==
    \E i \in DOMAIN last.trace : last.trace[i].prim = p /\ last.trace[i].ok

\* connect() had succeeded on the client the last call ran on.
ConnectSucceeded == last.pre.defined /\ last.pre.connected

\* The last call ran on a client that initialize() and connect() had both
\* completed on.
WasConnected == ConnectSucceeded /\ last.pre.initialized

\* C1: on every adapter, an operational method called while connect() has
\* not succeeded fails: it returns no value and invokes no backend
\* primitive.
C1_OperationalBeforeConnectFails ==
    (last.op \in OperationalOps /\ ~ConnectSucceeded)
        => /\ ~last.res.ok
           /\ last.trace = <<>>

\* C2: on every adapter disconnect() never raises, whether or not
\* initialize() or connect() came before it.
C2_DisconnectNeverRaises ==
    last.op = "disconnect" => last.res.ok

\* C3: the transaction the PoA adapter hands to prepareTransaction has the
\* gas limit round(1.1 * estimatedGas) and the gas price zero.
C3_PoAGasLimitRounded ==
    (last.kind = "POA" /\ last.op = "submitTransaction" /\ WasConnected
     /\ Invoked("prepareTransaction"))
        => /\ IsInteger(last.prepared.gasLimit,
                        Round(Frac(11 * last.arg.tx.estimatedGas, 10)))
           /\ last.prepared.gasPrice = "0"

\* C4: the transaction the Polygon adapter hands to prepareTransaction has
\* max-fee-per-gas exactly twice the base fee the SDK reported and the
\* priority fee 30 gwei, whatever the base fee.
C4_PolygonFees ==
    (last.kind = "POLYGON" /\ last.op = "submitTransaction"
     /\ Invoked("prepareTransaction"))
        => /\ last.prepared.maxFeePerGas = 2 * last.arg.baseFee
           /\ last.prepared.maxPriorityFeePerGas = 30 * WeiPerGwei

\* A Polygon submitTransaction reached prepareTransaction with a base fee
\* that is not zero.
C4_Witness ==
    /\ last.kind = "POLYGON" /\ last.op = "submitTransaction"
    /\ Invoked("prepareTransaction")
    /\ last.arg.baseFee = 100 * WeiPerGwei
    /\ last.res.ok

\* C5: getMetrics of the connected Ethereum adapter on a chain whose
\* latest block number is below 100, the provider answering every request,
\* fails with MetricsUnavailableError and returns no metrics.
C5_ShortHistoryFails ==
    (last.kind = "ETHEREUM" /\ last.op = "getMetrics" /\ WasConnected
     /\ ~(\E i \in DOMAIN last.trace : ~last.trace[i].ok)
     /\ last.arg.latest.st = "ok" /\ last.arg.latest.v.block.number < blockCount)
        => /\ ~last.res.ok
           /\ last.res.err = "MetricsUnavailableError"

\* The verifier identity v is the identity of signing key k.
SameIdentity(v, k) == v \in {AddressOf(k), LowerCase(AddressOf(k))}

\* The proof generateProof returns for a payload under the adapter's key.
GeneratedProof(d) ==
    [data |-> encode(d), signature |-> signData(encode(d))]

\* C6: on the Ethereum adapter, verifyProof of a proof that generateProof
\* made returns true when the configured verifier is the identity of the
\* configured signing key, and verifyProof of that proof with a signature
\* that differs from the generated one returns false.
C6_ProofRoundTrip ==
    (last.kind = "ETHEREUM" /\ last.op = "verifyProof"
     /\ SameIdentity(adapter.config.verifier, adapter.config.privateKey))
        => \A d \in Payloads :
              /\ last.arg.proof = GeneratedProof(d)
                     => (last.res.ok /\ last.res.val.bool = TRUE)
              /\ (/\ last.arg.proof.data = encode(d)
                  /\ last.arg.proof.signature # GeneratedProof(d).signature)
                     => (last.res.ok /\ last.res.val.bool = FALSE)

\* C7: verifyProof of a connected adapter never ends in an error, whatever
\* the proof.
C7_VerifyProofNeverThrows ==
    (last.op = "verifyProof" /\ WasConnected) => last.res.ok

\* Some backend primitive was invoked twice in the last call.
InvokedTwice ==
    \E i, j \in DOMAIN last.trace :
        i < j /\ last.trace[i].prim = last.trace[j].prim

\* Some invocation of a backend primitive failed in the last call.
SomeInvocationFailed == \E i \in DOMAIN last.trace : ~last.trace[i].ok

\* C8 as stated: within one call every backend primitive is invoked at
\* most once, and a failed invocation makes the call fail.
C8_Original ==
    /\ ~InvokedTwice
    /\ SomeInvocationFailed => ~last.res.ok

\* C8 as amended: within one call no backend primitive is invoked again
\* after an invocation of it failed, and a failed invocation makes the
\* call fail.
C8_NoRetryNoSuppression ==
    /\ \A i, j \in DOMAIN last.trace :
          (i < j /\ last.trace[i].prim = last.trace[j].prim)
              => last.trace[i].ok
    /\ SomeInvocationFailed => ~last.res.ok

\* A call invoked one primitive twice, the second invocation failed and
\* so did the call.
C8_Witness ==
    /\ InvokedTwice
    /\ SomeInvocationFailed
    /\ ~last.res.ok
    /\ last.op = "submitTransaction"

\* C9: submitTransaction of a connected adapter returns an identifier only
\* when the backend accepted the dispatch; when preparation or dispatch
\* fails it returns none and fails with SubmissionError.
C9_SubmitOutcome ==
    (last.op = "submitTransaction" /\ WasConnected)
        => LET dispatch == IF last.kind = "ETHEREUM" THEN "sendTransaction"
                           ELSE "submitTransaction"
           IN  /\ last.res.ok => (Accepted(dispatch) /\ last.res.val.id \in TxIds)
               /\ ~Accepted(dispatch)
                      => (~last.res.ok /\ last.res.err = "SubmissionError")

\* What the fee strategy of the claim puts in a field: the provider's
\* value when there is one, the policy constant when there is none.
ProviderOrConstant(field, constant) ==
    IF field # None THEN field[1] ELSE constant

\* C10: the transaction the Ethereum adapter prepares carries the
\* provider's maxFeePerGas and maxPriorityFeePerGas whenever the provider
\* gave a value, and 50 gwei and 2 gwei only when it gave none.
C10_EthFeeStrategy ==
    (last.kind = "ETHEREUM" /\ last.op = "submitTransaction" /\ WasConnected
     /\ Accepted("sendTransaction"))
        => /\ last.prepared.maxFeePerGas =
                ProviderOrConstant(last.arg.fd1.maxFeePerGas, 50 * WeiPerGwei)
           /\ last.prepared.maxPriorityFeePerGas =
                ProviderOrConstant(last.arg.fd2.maxPriorityFeePerGas,
                                   2 * WeiPerGwei)

\* C11: createAdapter maps the token POA, POLYGON or ETHEREUM to the adapter
\* of that kind, returned uninitialized (no client assigned yet); for any
\* other token it returns no adapter and raises UnsupportedBackendError.
C11_FactoryDispatch ==
    last.op = "createAdapter"
        => IF last.arg.chainType \in Kinds
           THEN /\ last.res.ok
                /\ last.res.val.adapter = last.arg.chainType
                /\ adapter.kind = last.arg.chainType
                /\ ~HasClient
           ELSE /\ ~last.res.ok
                /\ last.res.err = "UnsupportedBackendError"

\* The fields of NetworkMetrics.
MetricsFields == {"blockTime", "tps", "nodeCount", "latency"}

\* C12: the NetworkMetrics a getMetrics call of a connected adapter returns
\* carries a reported value in each of blockTime, tps, nodeCount and
\* latency; when the backend cannot report one the call fails and returns
\* nothing.
C12_MetricsComplete ==
    (last.op = "getMetrics" /\ WasConnected /\ last.res.ok)
        => IF last.kind = "ETHEREUM"
           THEN MetricsFields \subseteq DOMAIN last.res.val.ethMetrics
           ELSE \A f \in MetricsFields : last.res.val.metrics[f] # None

\* C13: getBlock(n) of a connected adapter, asked for a block the chain
\* does not have (the Ethereum provider answers null for it), returns no
\* Block and fails with NotFoundError.
C13_MissingBlockNotFound ==
    (last.kind = "ETHEREUM" /\ last.op = "getBlock" /\ WasConnected
     /\ last.arg.blockNumber > 0 /\ last.arg.answer = "null")
        => (~last.res.ok /\ last.res.err = "NotFoundError")

\* C14: a disconnect() of a connected adapter whose close has not answered
\* is never still waiting once more time has passed than the timeout of
\* the adapter's configuration (that of its constructor or that of its
\* client).
C14_DisconnectBounded ==
    (IsPending /\ WasConnected)
        => \/ last.arg.elapsed <= adapter.config.timeout
           \/ last.arg.elapsed <= adapter.client.cfg.timeout

WasInitialized == last.pre.defined /\ last.pre.initialized

\* C16: a connect() that no successful initialize() precedes (none was
\* called, or the last one failed) fails, and the adapter is not connected
\* afterwards.
C16_ConnectNeedsInitialize ==
    (last.op = "connect" /\ ~WasInitialized)
        => (~last.res.ok /\ ~(HasClient /\ adapter.client.connected))

\* C17: after initialize(cfg) every later step uses cfg: connect() hands
\* the client cfg's endpoints and timeout, generateProof signs with cfg's
\* key, whatever configuration the adapter was constructed with.
C17_OneConfiguration ==
    /\ (last.kind = "POA" /\ last.op = "connect" /\ WasInitialized
        /\ Accepted("connect"))
          => (/\ last.arg.endpoints = last.pre.cfg.endpoints
              /\ last.arg.timeout = last.pre.cfg.timeout)
    /\ (last.kind = "ETHEREUM" /\ last.op = "generateProof" /\ WasInitialized
        /\ last.res.ok)
          => last.res.val.proof.signature.key = last.pre.cfg.privateKey

\* The operations that need a connected adapter.
ChainOps == {"submitTransaction", "callContract", "getBlock", "getMetrics"}

\* C18: once disconnect() has completed on a connected adapter, a
\* submitTransaction, callContract, getBlock or getMetrics called next on
\* that adapter fails; stated for the Ethereum adapter, whose provider the
\* source shows.
C18_DisconnectedIsUnusable ==
    [][(last.kind = "ETHEREUM" /\ last.op = "disconnect" /\ last.res.ok
        /\ WasConnected
        /\ last'.kind = "ETHEREUM" /\ last'.op \in ChainOps)
          => ~last'.res.ok]_vars

\* C19: an initialize() that replaces a client that is still connected
\* disconnects that client first, so that the instance never holds more
\* than one live client.
C19_OneLiveClient ==
    (last.op = "initialize" /\ WasConnected /\ last.res.ok)
        => Invoked("disconnect")

\* C20: every transaction the Polygon or the Ethereum adapter of a
\* connected client has prepared and dispatched with a maximum fee above
\* zero carries a priority fee no higher than that maximum fee.
C20_PriorityWithinMaxFee ==
    (last.kind \in {"POLYGON", "ETHEREUM"} /\ last.op = "submitTransaction"
     /\ WasConnected
     /\ (Accepted("submitTransaction") \/ Accepted("sendTransaction"))
     /\ last.prepared.maxFeePerGas > 0)
        => last.prepared.maxPriorityFeePerGas <= last.prepared.maxFeePerGas

(***************************************************************************)
(* Properties of the test environment, under EnvSpec.                      *)
(***************************************************************************)

\* A call of a service method is the last thing that happened.
ServiceCalled == last.kind = "env" /\ last.op = "callService"

\* The attempts, among the first m, at which the original method returns
\* a result or throws a permanent error.
Decisive(b, m) ==
    {i \in 1 .. m : originalMethod(b, i).ok \/ originalMethod(b, i).permanent}

Least(S) == CHOOSE i \in S : \A j \in S : i <= j

\* C21: one retry wrapper attempts the wrapped method at most maxRetries
\* times; it returns the result of the first attempt that succeeds and
\* throws the first permanent error at once, making no attempt after
\* either; when all maxRetries attempts fail with errors that are not
\* permanent it throws the error of the last attempt.
C21_RetryLogic ==
    (ServiceCalled /\ last.info.wraps = 1) =>
        LET m == env.config.maxRetries
            b == last.info.behaviour
            D == Decisive(b, m)
        IN  /\ last.info.tries <= m
            /\ last.info.attempts = last.info.tries
            /\ D # {} =>
                 /\ last.info.tries = Least(D)
                 /\ last.info.outcome = originalMethod(b, Least(D))
            /\ (D = {} /\ m > 0) =>
                 /\ last.info.tries = m
                 /\ last.info.outcome = originalMethod(b, m)
                 /\ ~last.res.ok

\* A call through one wrapper that succeeded at its second attempt.
C21_Witness ==
    /\ ServiceCalled
    /\ last.info.wraps = 1
    /\ last.res.ok
    /\ last.info.tries = 2

\* C22: with retry enabled, one call of a service method that the
\* environment has put retry logic on attempts the original operation at
\* most maxRetries times, whatever initialize() and reset() calls came
\* before it in an environment that is initialized.
C22_AttemptsBounded ==
    (ServiceCalled /\ env.initialized /\ env.config.retryEnabled
     /\ last.info.wraps >= 1)
        => last.info.attempts <= env.config.maxRetries

\* C23: for every mock service, the method stored as _original<M> is the
\* original method without any retry wrapper, after any sequence of
\* initialize() and reset().
C23_OriginalIsUnwrapped ==
    (env.constructed /\ env.config.mockServices) =>
        \A n \in ServiceNames :
            (env.services[n].present /\ ServiceOf(env, n).original # None)
                => ServiceOf(env, n).original = Some(0)

\* The call of caller s is an initialize() that has passed the test of
\* this.initialized, has run the named step, and has not failed.
Running(s, step) ==
    /\ tasks[s].op = "initialize"
    /\ tasks[s].err = ""
    /\ step \in tasks[s].ran

\* C24: two overlapping calls of initialize() never both run its steps:
\* they do not both connect the database.
C24_InitializeOnce == ~(Running("a", "database") /\ Running("b", "database"))

\* The errors the steps of initialize() throw.
StepErrors == {"connect", "dbReset", "start", "TypeError"}

\* A call of initialize() has just been rejected.
InitializeRejected ==
    /\ last.kind = "env"
    /\ last.op = "initialize"
    /\ ~last.res.ok
    /\ last.res # Awaiting

\* C25: an initialize() that is rejected is rejected with the error of the
\* step that threw, after a cleanup that leaves the environment not
\* initialized, with no database client and no tracked containers.
C25_FailedInitializeCleansUp ==
    InitializeRejected =>
        /\ last.res.err \in StepErrors
        /\ ~env.initialized
        /\ env.databaseClient = Null
        /\ env.containers = <<>>

Accessors == {"getServices", "getService", "updateService"}

\* C26: getServices, getService and updateService succeed only while the
\* environment is initialized, and whenever one succeeds the environment
\* still holds its database client.
C26_AccessorsSeeLiveEnvironment ==
    (last.kind = "env" /\ last.op \in Accessors /\ last.res.ok) =>
        /\ last.info.initialized
        /\ last.info.databaseClient # Null

\* A call of cleanup() has just returned.
CleanupReturned ==
    last.kind = "env" /\ last.op = "cleanup" /\ last.res.ok

\* C27: cleanup() calls stop() on every container the environment tracks,
\* also after the stop of one of them has failed, and when it returns the
\* container list is empty, the database client is null and initialized
\* is false.
C27_CleanupReleasesEverything ==
    CleanupReturned =>
        /\ last.info.stops = last.info.tracked
        /\ env.containers = <<>>
        /\ env.databaseClient = Null
        /\ ~env.initialized

====
